---- MODULE Spec2Model ----
(***************************************************************************)
(* DataService (src/servicepytan/data.py): a facade bound to one           *)
(* connection and its timezone.  Every method builds an options map and    *)
(* hands it to the collaborator Endpoint (get_all, get_one_raw, update).   *)
(*                                                                         *)
(* The state is the bound configuration plus the record of the call the    *)
(* caller has made last: the requests the method issued, in order, the     *)
(* answers the collaborator gave, the warnings printed and what the        *)
(* caller got back.  Every method is synchronous, so one action is one     *)
(* whole call.                                                             *)
(***************************************************************************)
EXTENDS Integers, Sequences, FiniteSets, TLC

(* ---------------- bounds of the model ---------------- *)
MaxDay == 2          \* calendar days the caller passes as start / end
MaxRecs == 1         \* records in one answer of get_all
MaxEstimates == 2    \* estimate records in one answer to sold-estimates
MaxStatuses == 2     \* length of a status list the caller passes
MaxIds == 2          \* length of an id list the caller passes
MaxMatches == 2      \* records in one answer to a technician lookup by id
MaxReuses == 1       \* further calls the caller passes one and the same options dict to

(* ---------------- optional (defaulted) arguments ---------------- *)
None == [given |-> FALSE]
Some(v) == [given |-> TRUE, value |-> v]
OrDefault(arg, default) == IF arg.given THEN arg.value ELSE default
\* Python truthiness of a str-or-None argument (`if app_guid:`)
Truthy(arg) == arg.given /\ arg.value # ""

EmptyMap == [k \in {} |-> ""]
\* d[k] = v on a dict
Put(d, k, v) == [x \in (DOMAIN d) \cup {k} |-> IF x = k THEN v ELSE d[x]]

RECURSIVE SeqsUpTo(_, _)
SeqsUpTo(S, n) ==
  IF n = 0 THEN {<<>>}
  ELSE LET shorter == SeqsUpTo(S, n - 1)
       IN shorter \cup {Append(s, x) : s \in {t \in shorter : Len(t) = n - 1}, x \in S}

(* ---------------- collaborators ---------------- *)
\* connection configs the facade can be constructed with
Conns == {[tenant |-> "T1", timezone |-> "UTC"],
          [tenant |-> "T2", timezone |-> "Australia/Sydney"]}

get_timezone_by_file(c) == c.timezone

UtcOffsetHours(tz) == IF tz = "Australia/Sydney" THEN 10 ELSE 0

\* local midnight of calendar day d in timezone tz, as a UTC timestamp string
convert_date_to_api_format(d, tz) ==
  LET h == d * 24 - UtcOffsetHours(tz)
  IN "D" \o ToString(h \div 24) \o "T" \o ToString(h % 24) \o ":00:00Z"

EndpointDefaultVersion == 2

\* str(version) as it goes into the request path
VersionSegment(n) == ToString(n)

Endpoint(folder, endpoint, version, c) ==
  [folder |-> folder, endpoint |-> endpoint, version |-> version, conn |-> c]

\* a paged fetch: Endpoint(...).get_all(options)
GetAll(ep, options) == [ep |-> ep, options |-> options]
\* a raw fetch: Endpoint(...).get_one_raw(id)
GetOneRaw(ep, id) == [ep |-> ep, id |-> id]
\* a mutating request: Endpoint(...).update(id, json_payload, request_type)
Update(ep, id, payload, method) ==
  [ep |-> ep, id |-> id, json_payload |-> payload, request_type |-> method]

\* what the collaborator answers: it raises, or it returns
Fail == [ok |-> FALSE]
Ok(v) == [ok |-> TRUE, value |-> v]

Records == {[id |-> 1], [id |-> 2]}
\* sold estimates: with items, without items, with an item that has no total
Estimates == {[id |-> 1, items |-> <<[total |-> 10], [total |-> 5]>>],
              [id |-> 2, items |-> <<[total |-> 3]>>],
              [id |-> 3, items |-> <<>>],
              [id |-> 4],
              [id |-> 5, items |-> <<[total |-> 7], [sku |-> "x"]>>]}

Responses == {Fail} \cup {Ok(s) : s \in SeqsUpTo(Records, MaxRecs)}
EstimateResponses == {Fail} \cup {Ok(s) : s \in SeqsUpTo(Estimates, MaxEstimates)}
TechnicianResponses == {Fail} \cup {Ok(s) : s \in SeqsUpTo(Records, MaxMatches)}
RawResponses == {Fail, Ok([content |-> "bytes"])}
UpdateResponses == {Fail, Ok([id |-> 1, externalData |-> "updated"])}

(* ---------------- what a call does ---------------- *)
\* the caller got v back / the call raised
Returned(v) == <<v>>
Raised == <<>>

Effect(fs, us, rws, ws, err, res) ==
  [fetches |-> fs, updates |-> us, raws |-> rws, warnings |-> ws,
   outcome |-> err, result |-> res]

\* `return Endpoint(...).get_all(options)`
ReturnGetAll(req, resp) ==
  IF resp.ok
  THEN Effect(<<req>>, <<>>, <<>>, <<>>, "ok", Returned(resp.value))
  ELSE Effect(<<req>>, <<>>, <<>>, <<>>, "CollaboratorError", Raised)

VARIABLES
  conn,           \* self.conn
  timezone,       \* self.timezone
  pc,             \* the caller: "idle" between calls, "returned" holding an outcome
  op,             \* the method called last
  args,           \* its arguments, as the caller gave them
  fetches,        \* the get_all requests it issued, in order
  resps,          \* the collaborator's answers to the requests issued, in order
  updates,        \* the update requests it issued
  raws,           \* the get_one_raw requests it issued
  warnings,       \* the warnings it printed
  outcome,        \* "ok", or the kind of error raised
  result,         \* Returned(v) or Raised
  callerOptions,  \* the caller's own options dict after the call (None: none passed)
  earlier,        \* the date fields of the earlier calls that were passed this same dict
  job_status_default,         \* the list object that is job_status's default
  appointment_status_default  \* the list object that is appointment_status's default

vars == <<conn, timezone, pc, op, args, fetches, resps, updates, raws, warnings,
          outcome, result, callerOptions, earlier,
          job_status_default, appointment_status_default>>

DefaultJobStatus == <<"Completed", "Scheduled", "InProgress", "Dispatched">>
DefaultAppointmentStatus == <<"Scheduled", "Dispatched", "Working", "Done">>

NoCall ==
  /\ op = "none" /\ args = None
  /\ fetches = <<>> /\ resps = <<>> /\ updates = <<>> /\ raws = <<>>
  /\ warnings = <<>> /\ outcome = "none" /\ result = Raised
  /\ callerOptions = None
  /\ earlier = <<>>

\* DataService(conn)
Init ==
  /\ conn \in Conns
  /\ timezone = get_timezone_by_file(conn)
  /\ job_status_default = DefaultJobStatus
  /\ appointment_status_default = DefaultAppointmentStatus
  /\ pc = "idle"
  /\ NoCall

\* what no method assigns to: the bound configuration and the default lists
Bound == <<conn, timezone, job_status_default, appointment_status_default>>

\* the caller invokes method `name`; effect `e` is what the method did, `co` the
\* caller's options dict after it and `ea` the earlier calls that dict went through
CallWith(name, a, e, rs, co, ea) ==
  LET eff == e
  IN /\ pc' = "returned"
     /\ op' = name
     /\ args' = a
     /\ fetches' = eff.fetches
     /\ resps' = SubSeq(rs, 1, Len(eff.fetches) + Len(eff.updates) + Len(eff.raws))
     /\ updates' = eff.updates
     /\ raws' = eff.raws
     /\ warnings' = eff.warnings
     /\ outcome' = eff.outcome
     /\ result' = eff.result
     /\ callerOptions' = co
     /\ earlier' = ea
     /\ UNCHANGED Bound

Call(name, a, e, rs, co) == CallWith(name, a, e, rs, co, <<>>)

\* the caller is done with the outcome and is ready for its next call
Continue ==
  /\ pc = "returned"
  /\ pc' = "idle"
  /\ op' = "none" /\ args' = None
  /\ fetches' = <<>> /\ resps' = <<>> /\ updates' = <<>> /\ raws' = <<>>
  /\ warnings' = <<>> /\ outcome' = "none" /\ result' = Raised
  /\ callerOptions' = None
  /\ earlier' = <<>>
  /\ UNCHANGED Bound

Days == 1 .. MaxDay

(* ---------------- generic retrieval ---------------- *)
UnboundedWarning(folder, endpoint) ==
  <<"WARNING: You have not put any options in so this will call EVERYTHING!",
    folder, endpoint>>

DefaultVersion == 2

get_api_data(folder, endpoint, options, version, resp) ==
  LET opts == IF options.given THEN options.value ELSE EmptyMap
      ws == IF options.given THEN <<>> ELSE <<UnboundedWarning(folder, endpoint)>>
      e == ReturnGetAll(
             GetAll(Endpoint(folder, endpoint,
                             VersionSegment(OrDefault(version, DefaultVersion)), conn),
                    opts),
             resp)
  IN [e EXCEPT !.warnings = ws]

FolderEndpoints == {<<"jpm", "jobs">>, <<"accounting", "invoices">>}
CallerOptionMaps ==
  {EmptyMap,
   [k \in {"jobStatus"} |-> "A"],
   [k \in {"completedOnOrAfter", "active"} |-> IF k = "active" THEN "True" ELSE "stale"],
   [k \in {"soldAfter", "createdBefore"} |-> "stale"],
   [k \in {"completedBefore", "createdOnOrAfter"} |-> "stale"]}
OptionsArgs == {None} \cup {Some(m) : m \in CallerOptionMaps}
VersionArgs == {None, Some(2), Some(3)}

Call_get_api_data ==
  /\ pc = "idle"
  /\ \E fe \in FolderEndpoints, o \in OptionsArgs, v \in VersionArgs, r \in Responses :
    Call("get_api_data",
         [folder |-> fe[1], endpoint |-> fe[2], options |-> o, version |-> v],
         get_api_data(fe[1], fe[2], o, v, r), <<r>>, o)

BetweenDefaultVersion == 2
DefaultDateFilterModifier == "completed"

\* mutant: caller-supplied date keys are kept instead of overwritten
between_options_keep_caller(start_date, end_date, date_filter_modifier, options) ==
  LET m == OrDefault(date_filter_modifier, DefaultDateFilterModifier)
      o0 == IF options.given THEN options.value ELSE EmptyMap
      lo == m \o "OnOrAfter"
      hi == m \o "Before"
      o1 == IF lo \in DOMAIN o0 THEN o0
            ELSE Put(o0, lo, convert_date_to_api_format(start_date, timezone))
  IN IF hi \in DOMAIN o1 THEN o1
     ELSE Put(o1, hi, convert_date_to_api_format(end_date, timezone))

\* the options dict of get_api_data_between after its two assignments
between_options(start_date, end_date, date_filter_modifier, options) ==
  LET m == OrDefault(date_filter_modifier, DefaultDateFilterModifier)
      o0 == IF options.given THEN options.value ELSE EmptyMap
      o1 == Put(o0, m \o "OnOrAfter", convert_date_to_api_format(start_date, timezone))
  IN Put(o1, m \o "Before", convert_date_to_api_format(end_date, timezone))

get_api_data_between(folder, endpoint, start_date, end_date, date_filter_modifier, options, version, resp) ==
  get_api_data(folder, endpoint,
               Some(between_options(start_date, end_date, date_filter_modifier, options)),
               Some(OrDefault(version, BetweenDefaultVersion)), resp)

ModifierArgs == {None, Some("created"), Some("sold")}

Call_get_api_data_between ==
  /\ pc = "idle"
  /\ \E fe \in FolderEndpoints, s \in Days, e \in Days, m \in ModifierArgs,
     o \in OptionsArgs, v \in VersionArgs, r \in Responses :
    Call("get_api_data_between",
         [folder |-> fe[1], endpoint |-> fe[2], start_date |-> s, end_date |-> e,
          date_filter_modifier |-> m, options |-> o, version |-> v],
         get_api_data_between(fe[1], fe[2], s, e, m, o, v, r), <<r>>,
         \* the dict the caller passed is the dict the method assigned into
         IF o.given THEN Some(between_options(s, e, m, o)) ELSE None)

\* the caller passes the dict of its last get_api_data_between call once more, with
\* another date field and otherwise the same arguments
Call_get_api_data_between_same_options ==
  /\ pc = "returned"
  /\ op = "get_api_data_between"
  /\ callerOptions.given
  /\ Len(earlier) < MaxReuses
  /\ \E m \in ModifierArgs, r \in Responses :
       LET used == Append(earlier, OrDefault(args.date_filter_modifier,
                                            DefaultDateFilterModifier))
       IN /\ \A i \in 1 .. Len(used) :
               used[i] # OrDefault(m, DefaultDateFilterModifier)
          /\ CallWith("get_api_data_between",
                      [args EXCEPT !.date_filter_modifier = m,
                                   !.options = callerOptions],
                      get_api_data_between(args.folder, args.endpoint, args.start_date,
                                           args.end_date, m, callerOptions,
                                           args.version, r),
                      <<r>>,
                      Some(between_options(args.start_date, args.end_date, m,
                                           callerOptions)),
                      used)

(* ---------------- per-status operations ---------------- *)
\* mutant: each answer is put in front of the data gathered so far
RECURSIVE extend_per_status_prepend(_, _, _, _)
extend_per_status_prepend(reqs, resp, i, data) ==
  IF i > Len(reqs)
  THEN Effect(reqs, <<>>, <<>>, <<>>, "ok", Returned(data))
  ELSE IF ~resp[i].ok
       THEN Effect(SubSeq(reqs, 1, i), <<>>, <<>>, <<>>, "CollaboratorError", Raised)
       ELSE extend_per_status_prepend(reqs, resp, i + 1, resp[i].value \o data)

\* mutant: a failed fetch is swallowed and the loop goes on with the next status
RECURSIVE extend_per_status_skip_failed(_, _, _, _)
extend_per_status_skip_failed(reqs, resp, i, data) ==
  IF i > Len(reqs)
  THEN Effect(reqs, <<>>, <<>>, <<>>, "ok", Returned(data))
  ELSE IF ~resp[i].ok
       THEN extend_per_status_skip_failed(reqs, resp, i + 1, data)
       ELSE extend_per_status_skip_failed(reqs, resp, i + 1, data \o resp[i].value)

\* data = []; for status in ...: data.extend(Endpoint(...).get_all(options)); return data
\* reqs[i] is the request built for the i-th status, resp[i] the answer to the i-th fetch
RECURSIVE extend_per_status(_, _, _, _)
extend_per_status(reqs, resp, i, data) ==
  IF i > Len(reqs)
  THEN Effect(reqs, <<>>, <<>>, <<>>, "ok", Returned(data))
  ELSE IF ~resp[i].ok
       THEN Effect(SubSeq(reqs, 1, i), <<>>, <<>>, <<>>, "CollaboratorError", Raised)
       ELSE extend_per_status(reqs, resp, i + 1, data \o resp[i].value)

\* `if app_guid: options["externalDataApplicationGuid"] = app_guid`
with_app_guid(options, app_guid) ==
  IF Truthy(app_guid) THEN Put(options, "externalDataApplicationGuid", app_guid.value)
  ELSE options

jobs_completed_options(status, start_date, end_date, app_guid) ==
  with_app_guid(
    [k \in {"jobStatus", "completedOnOrAfter", "completedBefore"} |->
       CASE k = "jobStatus" -> status
         [] k = "completedOnOrAfter" -> convert_date_to_api_format(start_date, timezone)
         [] k = "completedBefore" -> convert_date_to_api_format(end_date, timezone)],
    app_guid)

get_jobs_completed_between(start_date, end_date, job_status, app_guid, resp) ==
  LET statuses == OrDefault(job_status, job_status_default)
      reqs == [i \in 1 .. Len(statuses) |->
                 GetAll(Endpoint("jpm", "jobs", VersionSegment(EndpointDefaultVersion), conn),
                        jobs_completed_options(statuses[i], start_date, end_date, app_guid))]
  IN extend_per_status(reqs, resp, 1, <<>>)

appointments_options(status, start_date, end_date) ==
  [k \in {"status", "startsOnOrAfter", "startsBefore"} |->
     CASE k = "status" -> status
       [] k = "startsOnOrAfter" -> convert_date_to_api_format(start_date, timezone)
       [] k = "startsBefore" -> convert_date_to_api_format(end_date, timezone)]

get_appointments_between(start_date, end_date, appointment_status, resp) ==
  LET statuses == OrDefault(appointment_status, appointment_status_default)
      reqs == [i \in 1 .. Len(statuses) |->
                 GetAll(Endpoint("jpm", "appointments",
                                 VersionSegment(EndpointDefaultVersion), conn),
                        appointments_options(statuses[i], start_date, end_date))]
  IN extend_per_status(reqs, resp, 1, <<>>)

Statuses == {"A", "B"}
StatusArgs == {None} \cup {Some(l) : l \in SeqsUpTo(Statuses, MaxStatuses)}
AppGuidArgs == {None, Some(""), Some("guid-1")}
StatusCount(arg, default) == Len(OrDefault(arg, default))

Call_get_jobs_completed_between ==
  /\ pc = "idle"
  /\ \E s \in Days, e \in Days, st \in StatusArgs, g \in AppGuidArgs :
    \E rs \in [1 .. StatusCount(st, job_status_default) -> Responses] :
      Call("get_jobs_completed_between",
           [start_date |-> s, end_date |-> e, job_status |-> st, app_guid |-> g],
           get_jobs_completed_between(s, e, st, g, rs), rs, None)

Call_get_appointments_between ==
  /\ pc = "idle"
  /\ \E s \in Days, e \in Days, st \in StatusArgs :
    \E rs \in [1 .. StatusCount(st, appointment_status_default) -> Responses] :
      Call("get_appointments_between",
           [start_date |-> s, end_date |-> e, appointment_status |-> st],
           get_appointments_between(s, e, st, rs), rs, None)

(* ---------------- single-request date-range operations ---------------- *)
\* an options dict literal with a lower and an upper date key
date_options(lower, upper, start_date, end_date) ==
  [k \in {lower, upper} |->
     IF k = lower THEN convert_date_to_api_format(start_date, timezone)
     ELSE convert_date_to_api_format(end_date, timezone)]

DefaultEndpoint(folder, endpoint) ==
  Endpoint(folder, endpoint, VersionSegment(EndpointDefaultVersion), conn)

get_jobs_created_between(start_date, end_date, app_guid, resp) ==
  ReturnGetAll(
    GetAll(DefaultEndpoint("jpm", "jobs"),
           with_app_guid(date_options("createdOnOrAfter", "createdBefore",
                                      start_date, end_date), app_guid)),
    resp)

get_jobs_modified_between(start_date, end_date, app_guid, resp) ==
  ReturnGetAll(
    GetAll(DefaultEndpoint("jpm", "jobs"),
           with_app_guid(date_options("modifiedOnOrAfter", "modifiedBefore",
                                      start_date, end_date), app_guid)),
    resp)

get_sold_estimates_between(start_date, end_date, resp) ==
  ReturnGetAll(
    GetAll(DefaultEndpoint("sales", "estimates"),
           Put(date_options("soldAfter", "soldBefore", start_date, end_date),
               "active", "True")),
    resp)

get_purchase_orders_created_between(start_date, end_date, resp) ==
  ReturnGetAll(
    GetAll(DefaultEndpoint("inventory", "purchase-orders"),
           date_options("createdOnOrAfter", "createdBefore", start_date, end_date)),
    resp)

\* mutant: the version argument is left out
get_calls_between_default_version(start_date, end_date, resp) ==
  ReturnGetAll(
    GetAll(DefaultEndpoint("telecom", "calls"),
           date_options("createdOnOrAfter", "createdBefore", start_date, end_date)),
    resp)

get_calls_between(start_date, end_date, resp) ==
  ReturnGetAll(
    GetAll(Endpoint("telecom", "calls", "3", conn),
           date_options("createdOnOrAfter", "createdBefore", start_date, end_date)),
    resp)

\* mutant: conn=self.conn is left out, so the Endpoint is built without the connection
get_bookings_between_without_conn(start_date, end_date, resp) ==
  ReturnGetAll(
    GetAll(Endpoint("crm", "bookings", VersionSegment(EndpointDefaultVersion), None),
           date_options("createdOnOrAfter", "createdBefore", start_date, end_date)),
    resp)

get_bookings_between(start_date, end_date, resp) ==
  ReturnGetAll(
    GetAll(DefaultEndpoint("crm", "bookings"),
           date_options("createdOnOrAfter", "createdBefore", start_date, end_date)),
    resp)

get_payments_between(start_date, end_date, resp) ==
  ReturnGetAll(
    GetAll(DefaultEndpoint("accounting", "payments"),
           date_options("paidOnAfter", "paidOnBefore", start_date, end_date)),
    resp)

\* mutant: start and end are swapped
get_invoices_between_swapped(start_date, end_date, resp) ==
  ReturnGetAll(
    GetAll(DefaultEndpoint("accounting", "invoices"),
           date_options("invoicedOnOrAfter", "invoicedOnBefore", end_date, start_date)),
    resp)

get_invoices_between(start_date, end_date, resp) ==
  ReturnGetAll(
    GetAll(DefaultEndpoint("accounting", "invoices"),
           date_options("invoicedOnOrAfter", "invoicedOnBefore", start_date, end_date)),
    resp)

\* mutant: an item without a total counts as 0 (sku.get("total", 0))
RECURSIVE add_items_lenient(_, _, _)
add_items_lenient(items, j, sales) ==
  IF j > Len(items) THEN [ok |-> TRUE, sales |-> sales]
  ELSE IF "total" \notin DOMAIN items[j] THEN add_items_lenient(items, j + 1, sales)
       ELSE add_items_lenient(items, j + 1, sales + items[j]["total"])

\* for sku in row["items"]: sales += sku["total"]
RECURSIVE add_items(_, _, _)
add_items(items, j, sales) ==
  IF j > Len(items) THEN [ok |-> TRUE, sales |-> sales]
  ELSE IF "total" \notin DOMAIN items[j] THEN [ok |-> FALSE]
       ELSE add_items(items, j + 1, sales + items[j]["total"])

\* for row in data: ...
RECURSIVE add_rows(_, _, _)
add_rows(data, i, sales) ==
  IF i > Len(data) THEN [ok |-> TRUE, sales |-> sales]
  ELSE IF "items" \notin DOMAIN data[i] THEN [ok |-> FALSE]
       ELSE LET t == add_items(data[i]["items"], 1, sales)
            IN IF t.ok THEN add_rows(data, i + 1, t.sales) ELSE t

get_total_sales_between(start_date, end_date, resp) ==
  LET e == get_sold_estimates_between(start_date, end_date, resp)
  IN IF e.outcome # "ok" THEN e
     ELSE LET t == add_rows(e.result[1], 1, 0)
          IN IF t.ok THEN [e EXCEPT !.result = Returned(t.sales)]
             ELSE [e EXCEPT !.outcome = "KeyError", !.result = Raised]

DateArgs(s, e) == [start_date |-> s, end_date |-> e]
DateGuidArgs(s, e, g) == [start_date |-> s, end_date |-> e, app_guid |-> g]

Call_get_jobs_created_between ==
  /\ pc = "idle"
  /\ \E s \in Days, e \in Days, g \in AppGuidArgs, r \in Responses :
       Call("get_jobs_created_between", DateGuidArgs(s, e, g),
            get_jobs_created_between(s, e, g, r), <<r>>, None)

Call_get_jobs_modified_between ==
  /\ pc = "idle"
  /\ \E s \in Days, e \in Days, g \in AppGuidArgs, r \in Responses :
       Call("get_jobs_modified_between", DateGuidArgs(s, e, g),
            get_jobs_modified_between(s, e, g, r), <<r>>, None)

Call_get_sold_estimates_between ==
  /\ pc = "idle"
  /\ \E s \in Days, e \in Days, r \in EstimateResponses :
       Call("get_sold_estimates_between", DateArgs(s, e),
            get_sold_estimates_between(s, e, r), <<r>>, None)

Call_get_total_sales_between ==
  /\ pc = "idle"
  /\ \E s \in Days, e \in Days, r \in EstimateResponses :
       Call("get_total_sales_between", DateArgs(s, e),
            get_total_sales_between(s, e, r), <<r>>, None)

Call_get_purchase_orders_created_between ==
  /\ pc = "idle"
  /\ \E s \in Days, e \in Days, r \in Responses :
       Call("get_purchase_orders_created_between", DateArgs(s, e),
            get_purchase_orders_created_between(s, e, r), <<r>>, None)

Call_get_calls_between ==
  /\ pc = "idle"
  /\ \E s \in Days, e \in Days, r \in Responses :
       Call("get_calls_between", DateArgs(s, e), get_calls_between(s, e, r), <<r>>, None)

Call_get_bookings_between ==
  /\ pc = "idle"
  /\ \E s \in Days, e \in Days, r \in Responses :
       Call("get_bookings_between", DateArgs(s, e),
            get_bookings_between(s, e, r), <<r>>, None)

Call_get_payments_between ==
  /\ pc = "idle"
  /\ \E s \in Days, e \in Days, r \in Responses :
       Call("get_payments_between", DateArgs(s, e),
            get_payments_between(s, e, r), <<r>>, None)

Call_get_invoices_between ==
  /\ pc = "idle"
  /\ \E s \in Days, e \in Days, r \in Responses :
       Call("get_invoices_between", DateArgs(s, e),
            get_invoices_between(s, e, r), <<r>>, None)

(* ---------------- listing operations ---------------- *)
active_options(active) == [k \in {"active"} |-> active]

get_employees(active, resp) ==
  ReturnGetAll(GetAll(DefaultEndpoint("settings", "employees"),
                      active_options(OrDefault(active, "True"))), resp)

get_technicians(active, resp) ==
  ReturnGetAll(GetAll(DefaultEndpoint("settings", "technicians"),
                      active_options(OrDefault(active, "True"))), resp)

get_tag_types(active, resp) ==
  ReturnGetAll(GetAll(DefaultEndpoint("settings", "tag-types"),
                      active_options(OrDefault(active, "True"))), resp)

get_business_units(active, resp) ==
  ReturnGetAll(GetAll(DefaultEndpoint("settings", "business-units"),
                      active_options(OrDefault(active, "True"))), resp)

\* mutant: the default of the other listing operations
get_job_types_default_true(active, resp) ==
  ReturnGetAll(GetAll(DefaultEndpoint("jpm", "job-types"),
                      active_options(OrDefault(active, "True"))), resp)

get_job_types(active, resp) ==
  ReturnGetAll(GetAll(DefaultEndpoint("jpm", "job-types"),
                      active_options(OrDefault(active, "Any"))), resp)

get_all_technicians(resp) ==
  ReturnGetAll(GetAll(DefaultEndpoint("settings", "technicians"), EmptyMap), resp)

get_all_tag_types(resp) ==
  ReturnGetAll(GetAll(DefaultEndpoint("settings", "tag-types"), EmptyMap), resp)

ActiveArgs == {None, Some("True"), Some("False"), Some("Any")}
ActiveArg(a) == [active |-> a]

Call_get_employees ==
  /\ pc = "idle"
  /\ \E a \in ActiveArgs, r \in Responses :
       Call("get_employees", ActiveArg(a), get_employees(a, r), <<r>>, None)

Call_get_technicians ==
  /\ pc = "idle"
  /\ \E a \in ActiveArgs, r \in Responses :
       Call("get_technicians", ActiveArg(a), get_technicians(a, r), <<r>>, None)

Call_get_tag_types ==
  /\ pc = "idle"
  /\ \E a \in ActiveArgs, r \in Responses :
       Call("get_tag_types", ActiveArg(a), get_tag_types(a, r), <<r>>, None)

Call_get_business_units ==
  /\ pc = "idle"
  /\ \E a \in ActiveArgs, r \in Responses :
       Call("get_business_units", ActiveArg(a), get_business_units(a, r), <<r>>, None)

Call_get_job_types ==
  /\ pc = "idle"
  /\ \E a \in ActiveArgs, r \in Responses :
       Call("get_job_types", ActiveArg(a), get_job_types(a, r), <<r>>, None)

Call_get_all_technicians ==
  /\ pc = "idle"
  /\ \E r \in Responses :
       Call("get_all_technicians", None, get_all_technicians(r), <<r>>, None)

Call_get_all_tag_types ==
  /\ pc = "idle"
  /\ \E r \in Responses :
       Call("get_all_tag_types", None, get_all_tag_types(r), <<r>>, None)

(* ---------------- lookups by id ---------------- *)
\* ','.join(ids)
RECURSIVE join(_, _)
join(ids, i) ==
  IF i > Len(ids) THEN ""
  ELSE IF i = Len(ids) THEN ids[i]
       ELSE ids[i] \o "," \o join(ids, i + 1)

get_invoices_by_id(ids, resp) ==
  ReturnGetAll(GetAll(DefaultEndpoint("accounting", "invoices"),
                      [k \in {"ids"} |-> join(ids, 1)]), resp)

get_payments_for_invoices(invoice_ids, resp) ==
  ReturnGetAll(GetAll(DefaultEndpoint("accounting", "payments"),
                      [k \in {"appliedToInvoiceIds"} |-> join(invoice_ids, 1)]), resp)

get_estimates_by_job_id(job_id, resp) ==
  ReturnGetAll(GetAll(DefaultEndpoint("sales", "estimates"),
                      [k \in {"jobId"} |-> job_id]), resp)

get_appointment_assignments_by_job_id(job_id, resp) ==
  ReturnGetAll(GetAll(DefaultEndpoint("dispatch", "appointment-assignments"),
                      [k \in {"jobId"} |-> job_id]), resp)

\* mutant: the last element instead of the first
get_technician_by_id_last(tech_id, resp) ==
  LET e == ReturnGetAll(GetAll(DefaultEndpoint("settings", "technicians"),
                               [k \in {"ids"} |-> tech_id]), resp)
  IN IF e.outcome # "ok" THEN e
     ELSE IF Len(e.result[1]) = 0
          THEN [e EXCEPT !.outcome = "IndexError", !.result = Raised]
          ELSE [e EXCEPT !.result = Returned(e.result[1][Len(e.result[1])])]

\* Endpoint(...).get_all(options)[0]
get_technician_by_id(tech_id, resp) ==
  LET e == ReturnGetAll(GetAll(DefaultEndpoint("settings", "technicians"),
                               [k \in {"ids"} |-> tech_id]), resp)
  IN IF e.outcome # "ok" THEN e
     ELSE IF Len(e.result[1]) = 0
          THEN [e EXCEPT !.outcome = "IndexError", !.result = Raised]
          ELSE [e EXCEPT !.result = Returned(e.result[1][1])]

\* Endpoint("forms", "jobs/attachment").get_one_raw(attach_id).content
get_attachment(attach_id, resp) ==
  LET req == GetOneRaw(DefaultEndpoint("forms", "jobs/attachment"), attach_id)
  IN IF resp.ok
     THEN Effect(<<>>, <<>>, <<req>>, <<>>, "ok", Returned(resp.value.content))
     ELSE Effect(<<>>, <<>>, <<req>>, <<>>, "CollaboratorError", Raised)

external_data_payload(data_payload, external_guid, patch_mode) ==
  [externalData |->
     [patchMode |-> patch_mode,
      applicationGuid |-> external_guid,
      externalData |-> data_payload]]

\* mutant: the payload is sent without the enclosing externalData object
patch_job_external_data_flat(job_id, data_payload, external_guid, patch_mode, resp) ==
  LET req == Update(DefaultEndpoint("jpm", "jobs"), job_id,
                    external_data_payload(data_payload, external_guid,
                                          OrDefault(patch_mode, "Merge")).externalData,
                    "PATCH")
  IN IF resp.ok
     THEN Effect(<<>>, <<req>>, <<>>, <<>>, "ok", Returned(resp.value))
     ELSE Effect(<<>>, <<req>>, <<>>, <<>>, "CollaboratorError", Raised)

patch_job_external_data(job_id, data_payload, external_guid, patch_mode, resp) ==
  LET req == Update(DefaultEndpoint("jpm", "jobs"), job_id,
                    external_data_payload(data_payload, external_guid,
                                          OrDefault(patch_mode, "Merge")),
                    "PATCH")
  IN IF resp.ok
     THEN Effect(<<>>, <<req>>, <<>>, <<>>, "ok", Returned(resp.value))
     ELSE Effect(<<>>, <<req>>, <<>>, <<>>, "CollaboratorError", Raised)

IdStrings == {"1", "2"}
IdListArgs == SeqsUpTo(IdStrings, MaxIds)
JobIds == {11, 12}
TechIds == {1, 2}
AttachIds == {21, 22}
Payloads == {[note |-> "a"], [note |-> "b", ref |-> "c"]}
Guids == {"guid-1", "guid-2"}
PatchModeArgs == {None, Some("Merge"), Some("Replace")}

Call_get_invoices_by_id ==
  /\ pc = "idle"
  /\ \E ids \in IdListArgs, r \in Responses :
       Call("get_invoices_by_id", [ids |-> ids], get_invoices_by_id(ids, r), <<r>>, None)

Call_get_payments_for_invoices ==
  /\ pc = "idle"
  /\ \E ids \in IdListArgs, r \in Responses :
       Call("get_payments_for_invoices", [invoice_ids |-> ids],
            get_payments_for_invoices(ids, r), <<r>>, None)

Call_get_estimates_by_job_id ==
  /\ pc = "idle"
  /\ \E j \in JobIds, r \in Responses :
       Call("get_estimates_by_job_id", [job_id |-> j],
            get_estimates_by_job_id(j, r), <<r>>, None)

Call_get_appointment_assignments_by_job_id ==
  /\ pc = "idle"
  /\ \E j \in JobIds, r \in Responses :
       Call("get_appointment_assignments_by_job_id", [job_id |-> j],
            get_appointment_assignments_by_job_id(j, r), <<r>>, None)

Call_get_technician_by_id ==
  /\ pc = "idle"
  /\ \E t \in TechIds, r \in TechnicianResponses :
       Call("get_technician_by_id", [tech_id |-> t],
            get_technician_by_id(t, r), <<r>>, None)

Call_get_attachment ==
  /\ pc = "idle"
  /\ \E a \in AttachIds, r \in RawResponses :
       Call("get_attachment", [attach_id |-> a], get_attachment(a, r), <<r>>, None)

Call_patch_job_external_data ==
  /\ pc = "idle"
  /\ \E j \in JobIds, p \in Payloads, g \in Guids, m \in PatchModeArgs,
        r \in UpdateResponses :
       Call("patch_job_external_data",
            [job_id |-> j, data_payload |-> p, external_guid |-> g, patch_mode |-> m],
            patch_job_external_data(j, p, g, m, r), <<r>>, None)

Next ==
  \/ Call_get_api_data
  \/ Call_get_api_data_between
  \/ Call_get_api_data_between_same_options
  \/ Call_get_jobs_completed_between
  \/ Call_get_appointments_between
  \/ Call_get_jobs_created_between
  \/ Call_get_jobs_modified_between
  \/ Call_get_sold_estimates_between
  \/ Call_get_total_sales_between
  \/ Call_get_purchase_orders_created_between
  \/ Call_get_calls_between
  \/ Call_get_bookings_between
  \/ Call_get_payments_between
  \/ Call_get_invoices_between
  \/ Call_get_employees
  \/ Call_get_technicians
  \/ Call_get_tag_types
  \/ Call_get_business_units
  \/ Call_get_job_types
  \/ Call_get_all_technicians
  \/ Call_get_all_tag_types
  \/ Call_get_invoices_by_id
  \/ Call_get_payments_for_invoices
  \/ Call_get_estimates_by_job_id
  \/ Call_get_appointment_assignments_by_job_id
  \/ Call_get_technician_by_id
  \/ Call_get_attachment
  \/ Call_patch_job_external_data
  \/ Continue

Spec == Init /\ [][Next]_vars

(* ======================= properties ======================= *)
AfterCall(name) == pc = "returned" /\ op = name
AllAnswered == \A i \in 1 .. Len(resps) : resps[i].ok
SomeFailed == \E i \in 1 .. Len(resps) : ~resps[i].ok

\* the records of the answers rs[i..], one answer after the other
RECURSIVE RecordsFrom(_, _)
RecordsFrom(rs, i) ==
  IF i > Len(rs) THEN <<>> ELSE rs[i].value \o RecordsFrom(rs, i + 1)

\* the statuses of the call, and the options key that carries one status
StatusesOfCall ==
  IF op = "get_jobs_completed_between" THEN OrDefault(args.job_status, DefaultJobStatus)
  ELSE OrDefault(args.appointment_status, DefaultAppointmentStatus)
StatusKeyOfCall == IF op = "get_jobs_completed_between" THEN "jobStatus" ELSE "status"
StatusEndpointOfCall == IF op = "get_jobs_completed_between" THEN "jobs" ELSE "appointments"
PerStatusCall ==
  pc = "returned" /\ op \in {"get_jobs_completed_between", "get_appointments_between"}

\* the i-th fetch goes to jpm/<endpoint> and carries the i-th status
CarriesStatus(i) ==
  /\ fetches[i].ep.folder = "jpm"
  /\ fetches[i].ep.endpoint = StatusEndpointOfCall
  /\ fetches[i].options[StatusKeyOfCall] = StatusesOfCall[i]

\* C1: a per-status operation whose fetches are all answered issues exactly one
\* fetch per status, the i-th carrying the i-th status (jobStatus against jpm/jobs,
\* status against jpm/appointments), and returns the answers' records concatenated
\* in the order of the statuses; with no status it fetches nothing and returns the
\* empty sequence.
C1_OneFetchPerStatusInOrder ==
  (PerStatusCall /\ AllAnswered) =>
    /\ Len(fetches) = Len(StatusesOfCall)
    /\ \A i \in 1 .. Len(StatusesOfCall) : CarriesStatus(i)
    /\ outcome = "ok"
    /\ result = Returned(RecordsFrom(resps, 1))
    /\ (Len(StatusesOfCall) = 0 => fetches = <<>> /\ result = Returned(<<>>))

C1_Witness ==
  /\ AfterCall("get_jobs_completed_between")
  /\ args.job_status = Some(<<"B", "A">>)
  /\ resps = <<Ok(<<[id |-> 1]>>), Ok(<<[id |-> 2]>>)>>
  /\ result = Returned(<<[id |-> 1], [id |-> 2]>>)

FirstFailed == CHOOSE k \in 1 .. Len(resps) : ~resps[k].ok /\ \A j \in 1 .. k - 1 : resps[j].ok

\* C2: in a per-status operation, when the fetch for the k-th status fails the call
\* raises that failure: the fetches issued are exactly those of statuses 1..k (none
\* for a later status, the failed one not repeated) and the caller gets no records.
C2_FailedStatusAbortsCall ==
  (PerStatusCall /\ SomeFailed) =>
    /\ outcome = "CollaboratorError"
    /\ result = Raised
    /\ Len(fetches) = FirstFailed
    /\ FirstFailed <= Len(StatusesOfCall)
    /\ \A i \in 1 .. FirstFailed : CarriesStatus(i)

C2_Witness ==
  /\ AfterCall("get_appointments_between")
  /\ ~args.appointment_status.given
  /\ resps = <<Ok(<<[id |-> 1]>>), Fail>>
  /\ Len(fetches) = 2
  /\ result = Raised

NoOptionsGiven == ~args.options.given \/ args.options.value = EmptyMap

\* C3: get_api_data called with options absent or with an empty options map prints
\* the unbounded-call warning and still issues exactly one fetch with an empty
\* options map and returns its answer; with a non-empty map it prints no warning.
C3_WarnsOnAbsentOrEmptyOptions ==
  AfterCall("get_api_data") =>
    /\ NoOptionsGiven =>
         /\ Len(warnings) = 1
         /\ Len(fetches) = 1
         /\ fetches[1].options = EmptyMap
         /\ (resps[1].ok => result = Returned(resps[1].value))
    /\ ~NoOptionsGiven => warnings = <<>>

SentOptions == fetches[1].options
CallerGave == IF args.options.given THEN args.options.value ELSE EmptyMap
DateField == OrDefault(args.date_filter_modifier, "completed")
StartStamp == convert_date_to_api_format(args.start_date, timezone)
EndStamp == convert_date_to_api_format(args.end_date, timezone)

\* C4: get_api_data_between sends one fetch, to the given folder and endpoint with
\* the given version, whose options are the caller's options except that key
\* F+"OnOrAfter" holds the converted start and key F+"Before" the converted end:
\* caller values under these two keys are overwritten, every other caller key keeps
\* its value, and the answer of the fetch is what the caller gets.
C4_BetweenMergesDateKeys ==
  AfterCall("get_api_data_between") =>
    LET lo == DateField \o "OnOrAfter"
        hi == DateField \o "Before"
    IN /\ Len(fetches) = 1
       /\ DOMAIN SentOptions = (DOMAIN CallerGave) \cup {lo, hi}
       /\ SentOptions[lo] = StartStamp
       /\ SentOptions[hi] = EndStamp
       /\ \A k \in (DOMAIN CallerGave) \ {lo, hi} : SentOptions[k] = CallerGave[k]
       /\ fetches[1].ep = Endpoint(args.folder, args.endpoint,
                                   VersionSegment(OrDefault(args.version, 2)), conn)
       /\ warnings = <<>>
       /\ (resps[1].ok => result = Returned(resps[1].value))
       /\ (~resps[1].ok => result = Raised)

C4_Witness ==
  /\ AfterCall("get_api_data_between")
  /\ ~args.date_filter_modifier.given
  /\ args.options.given
  /\ DOMAIN args.options.value = {"completedOnOrAfter", "active"}
  /\ args.start_date # args.end_date
  /\ SentOptions["completedOnOrAfter"] = StartStamp
  /\ SentOptions["completedOnOrAfter"] # args.options.value["completedOnOrAfter"]
  /\ SentOptions["active"] = "True"
  /\ args.version = Some(3)
  /\ outcome = "ok"

(* date keys of the remote API, by their form *)
DateFields ==
  {"completed", "created", "modified", "starts", "started", "sold", "paid", "invoiced"}
LowerKeysOfField(f) == {f \o "OnOrAfter", f \o "OnAfter", f \o "After"}
UpperKeysOfField(f) == {f \o "Before", f \o "OnBefore"}
OnOrAfterKeys == {f \o "OnOrAfter" : f \in DateFields}
BeforeKeys == {f \o "Before" : f \in DateFields}
LowerBoundKeys == UNION {LowerKeysOfField(f) : f \in DateFields}
UpperBoundKeys == UNION {UpperKeysOfField(f) : f \in DateFields}
OnOrAfterForm(k) == k \in OnOrAfterKeys
BeforeForm(k) == k \in BeforeKeys
LowerBoundKey(k) == k \in LowerBoundKeys
UpperBoundKey(k) == k \in UpperBoundKeys

BetweenOps ==
  {"get_api_data_between", "get_jobs_completed_between", "get_jobs_created_between",
   "get_jobs_modified_between", "get_appointments_between",
   "get_sold_estimates_between", "get_purchase_orders_created_between",
   "get_calls_between", "get_bookings_between", "get_payments_between",
   "get_invoices_between"}
BetweenCall == pc = "returned" /\ op \in BetweenOps

\* the semantic field each operation filters on
SemanticFieldOf(name) ==
  CASE name = "get_api_data_between" -> DateField
    [] name = "get_jobs_completed_between" -> "completed"
    [] name = "get_jobs_modified_between" -> "modified"
    [] name = "get_appointments_between" -> "starts"
    [] name = "get_sold_estimates_between" -> "sold"
    [] name = "get_payments_between" -> "paid"
    [] name = "get_invoices_between" -> "invoiced"
    [] OTHER -> "created"

\* keys of the emitted map that the operation set itself (get_api_data_between
\* also sends the keys of the caller's own options)
OwnKeys(o, f) ==
  IF op = "get_api_data_between"
  THEN (DOMAIN o) \ ((DOMAIN CallerGave) \ {f \o "OnOrAfter", f \o "Before"})
  ELSE DOMAIN o

\* C5 as stated: every options map a "between" operation emits holds, for the
\* operation's semantic field f, exactly one lower-bound key, of the form
\* f+"OnOrAfter", with the converted start, and exactly one upper-bound key, of the
\* form f+"Before", with the converted end.
C5_OnOrAfterAndBeforeForms ==
  BetweenCall =>
    \A i \in 1 .. Len(fetches) :
      LET o == fetches[i].options
          f == SemanticFieldOf(op)
      IN /\ OwnKeys(o, f) \cap LowerKeysOfField(f) = {f \o "OnOrAfter"}
         /\ OwnKeys(o, f) \cap UpperKeysOfField(f) = {f \o "Before"}
         /\ o[f \o "OnOrAfter"] = StartStamp
         /\ o[f \o "Before"] = EndStamp

\* the lower and the upper date key each operation uses
LowerKeyOf(name) ==
  CASE name = "get_api_data_between" -> DateField \o "OnOrAfter"
    [] name = "get_jobs_completed_between" -> "completedOnOrAfter"
    [] name = "get_jobs_modified_between" -> "modifiedOnOrAfter"
    [] name = "get_appointments_between" -> "startsOnOrAfter"
    [] name = "get_sold_estimates_between" -> "soldAfter"
    [] name = "get_payments_between" -> "paidOnAfter"
    [] name = "get_invoices_between" -> "invoicedOnOrAfter"
    [] OTHER -> "createdOnOrAfter"
UpperKeyOf(name) ==
  CASE name = "get_api_data_between" -> DateField \o "Before"
    [] name = "get_jobs_completed_between" -> "completedBefore"
    [] name = "get_jobs_modified_between" -> "modifiedBefore"
    [] name = "get_appointments_between" -> "startsBefore"
    [] name = "get_sold_estimates_between" -> "soldBefore"
    [] name = "get_payments_between" -> "paidOnBefore"
    [] name = "get_invoices_between" -> "invoicedOnBefore"
    [] OTHER -> "createdBefore"
\* date keys the caller of get_api_data_between passed in its own options
PassedThrough ==
  IF op = "get_api_data_between" THEN DOMAIN CallerGave ELSE {}

\* C5 amended: every options map a "between" operation emits holds its lower date
\* key with the converted start and its upper date key with the converted end, and
\* no other date key except those the caller of get_api_data_between passed in; the
\* keys are <field>OnOrAfter and <field>Before except soldAfter (sold estimates),
\* paidOnAfter and paidOnBefore (payments) and invoicedOnBefore (invoices).
C5_OneLowerAndOneUpperDateKey ==
  BetweenCall =>
    \A i \in 1 .. Len(fetches) :
      LET o == fetches[i].options
          lo == LowerKeyOf(op)
          hi == UpperKeyOf(op)
      IN /\ lo \in DOMAIN o /\ o[lo] = StartStamp
         /\ hi \in DOMAIN o /\ o[hi] = EndStamp
         /\ {x \in DOMAIN o : LowerBoundKey(x)} \subseteq {lo} \cup PassedThrough
         /\ {x \in DOMAIN o : UpperBoundKey(x)} \subseteq {hi} \cup PassedThrough
         /\ LowerBoundKey(lo) /\ UpperBoundKey(hi)
         /\ (op \notin {"get_sold_estimates_between", "get_payments_between"}
               => OnOrAfterForm(lo))
         /\ (op \notin {"get_payments_between", "get_invoices_between"}
               => BeforeForm(hi))

C5_Witness ==
  /\ AfterCall("get_invoices_between")
  /\ args.start_date # args.end_date
  /\ DOMAIN SentOptions = {"invoicedOnOrAfter", "invoicedOnBefore"}
  /\ SentOptions["invoicedOnOrAfter"] = StartStamp
  /\ SentOptions["invoicedOnBefore"] = EndStamp
  /\ ~BeforeForm("invoicedOnBefore")

\* C6: get_technician_by_id(x) issues exactly one fetch, against settings/technicians
\* with ids = x as its only option; it returns the first record of the answer, and
\* raises instead of returning a value when the answer is the empty sequence.
C6_TechnicianByIdFirstOrFail ==
  AfterCall("get_technician_by_id") =>
    /\ Len(fetches) = 1
    /\ fetches[1].ep.folder = "settings"
    /\ fetches[1].ep.endpoint = "technicians"
    /\ DOMAIN SentOptions = {"ids"}
    /\ SentOptions["ids"] = args.tech_id
    /\ (resps[1].ok /\ Len(resps[1].value) > 0
          => outcome = "ok" /\ result = Returned(Head(resps[1].value)))
    /\ (resps[1].ok /\ Len(resps[1].value) = 0
          => outcome = "IndexError" /\ result = Raised)
    /\ (~resps[1].ok => outcome = "CollaboratorError" /\ result = Raised)

C6_Witness ==
  /\ AfterCall("get_technician_by_id")
  /\ resps = <<Ok(<<[id |-> 2], [id |-> 1]>>)>>
  /\ result = Returned([id |-> 2])

C6_WitnessEmpty ==
  /\ AfterCall("get_technician_by_id")
  /\ resps = <<Ok(<<>>)>>
  /\ outcome = "IndexError"

\* every record has items and every item has a total
Summable(rows) ==
  \A i \in 1 .. Len(rows) :
    /\ "items" \in DOMAIN rows[i]
    /\ \A j \in 1 .. Len(rows[i].items) : "total" \in DOMAIN rows[i].items[j]

\* the totals of all items of all rows, in one sequence
RECURSIVE TotalsOf(_)
TotalsOf(rows) ==
  IF rows = <<>> THEN <<>>
  ELSE [j \in 1 .. Len(Head(rows).items) |-> Head(rows).items[j].total]
         \o TotalsOf(Tail(rows))
RECURSIVE SumOf(_)
SumOf(ns) == IF ns = <<>> THEN 0 ELSE Head(ns) + SumOf(Tail(ns))

\* C7: get_total_sales_between issues exactly the one fetch of
\* get_sold_estimates_between(start, end); it returns the sum of total over every
\* item of every returned record (0 when there is none), and raises, returning no
\* number, when a returned record has no items or an item has no total.
C7_TotalSalesSumsItemTotals ==
  AfterCall("get_total_sales_between") =>
    /\ Len(fetches) = 1
    /\ fetches[1].ep.folder = "sales"
    /\ fetches[1].ep.endpoint = "estimates"
    /\ DOMAIN SentOptions = {"active", "soldAfter", "soldBefore"}
    /\ SentOptions["active"] = "True"
    /\ SentOptions["soldAfter"] = StartStamp
    /\ SentOptions["soldBefore"] = EndStamp
    /\ (resps[1].ok /\ Summable(resps[1].value)
          => outcome = "ok" /\ result = Returned(SumOf(TotalsOf(resps[1].value))))
    /\ (resps[1].ok /\ ~Summable(resps[1].value)
          => outcome = "KeyError" /\ result = Raised)
    /\ (~resps[1].ok => outcome = "CollaboratorError" /\ result = Raised)

C7_Witness ==
  /\ AfterCall("get_total_sales_between")
  /\ resps = <<Ok(<<[id |-> 1, items |-> <<[total |-> 10], [total |-> 5]>>],
                    [id |-> 2, items |-> <<[total |-> 3]>>]>>)>>
  /\ result = Returned(18)

C7_WitnessMissingTotal ==
  /\ AfterCall("get_total_sales_between")
  /\ resps[1].ok
  /\ ~Summable(resps[1].value)
  /\ result = Raised

\* every request the call issued (fetches, updates and raw fetches)
VersionsUsed ==
  {fetches[i].ep.version : i \in 1 .. Len(fetches)}
    \cup {updates[i].ep.version : i \in 1 .. Len(updates)}
    \cup {raws[i].ep.version : i \in 1 .. Len(raws)}
CalledWithDefaultVersion ==
  op \in {"get_api_data", "get_api_data_between"} => ~args.version.given

\* C8: get_calls_between issues its fetch against telecom/calls with API version 3;
\* every other operation, called without a version argument, issues all its
\* requests with API version 2.
C8_CallsUseVersion3OthersVersion2 ==
  pc = "returned" =>
    /\ op = "get_calls_between" =>
         /\ Len(fetches) = 1
         /\ fetches[1].ep.folder = "telecom"
         /\ fetches[1].ep.endpoint = "calls"
         /\ VersionsUsed = {"3"}
    /\ (op # "get_calls_between" /\ CalledWithDefaultVersion) =>
         VersionsUsed \subseteq {"2"}

C8_Witness ==
  /\ AfterCall("get_calls_between")
  /\ outcome = "ok"
  /\ fetches[1].ep.version = "3"

ListingDefault(name) == IF name = "get_job_types" THEN "Any" ELSE "True"
ListingOps ==
  {"get_employees", "get_technicians", "get_tag_types", "get_business_units",
   "get_job_types"}

\* C9: a listing operation with an active parameter sends active as the only key of
\* its options: the argument when one is given, and without an argument "Any" for
\* get_job_types and "True" for get_employees, get_technicians, get_tag_types and
\* get_business_units.
C9_ListingDefaults ==
  (pc = "returned" /\ op \in ListingOps) =>
    /\ Len(fetches) = 1
    /\ DOMAIN SentOptions = {"active"}
    /\ SentOptions["active"] = OrDefault(args.active, ListingDefault(op))

C9_Witness ==
  /\ AfterCall("get_job_types")
  /\ ~args.active.given
  /\ SentOptions["active"] = "Any"

LeftOver(f) ==
  \/ /\ (f \o "OnOrAfter") \in DOMAIN SentOptions
     /\ SentOptions[f \o "OnOrAfter"] = StartStamp
  \/ /\ (f \o "Before") \in DOMAIN SentOptions
     /\ SentOptions[f \o "Before"] = EndStamp

\* C11: after get_api_data_between(..., options = O) has returned or raised, the
\* caller's map O holds exactly the keys and values it held before the call, and a
\* later call that is passed O with another date field sends no date key of the
\* earlier call.
C11_OptionsFreshPerCall ==
  (AfterCall("get_api_data_between") /\ args.options.given) =>
    /\ callerOptions = args.options
    /\ \A i \in 1 .. Len(earlier) : ~LeftOver(earlier[i])

\* the second half of C11 alone: the later call with the same map
C11_NoDateKeyLeftOver ==
  (AfterCall("get_api_data_between") /\ earlier # <<>>) =>
    \A i \in 1 .. Len(earlier) : ~LeftOver(earlier[i])

\* every request of the call (fetches, updates and raw fetches) goes out with the
\* bound connection
RequestsUseBoundConn ==
  /\ \A i \in 1 .. Len(fetches) : fetches[i].ep.conn = conn
  /\ \A i \in 1 .. Len(updates) : updates[i].ep.conn = conn
  /\ \A i \in 1 .. Len(raws) : raws[i].ep.conn = conn

\* every date the call sends is the conversion through the bound timezone, which is
\* the timezone resolved from the bound connection
DatesUseBoundTimezone ==
  /\ timezone = get_timezone_by_file(conn)
  /\ op \in BetweenOps \cup {"get_total_sales_between"} =>
       \A i \in 1 .. Len(fetches) :
         LET o == fetches[i].options
             lo == IF op = "get_total_sales_between" THEN "soldAfter"
                   ELSE LowerKeyOf(op)
             hi == IF op = "get_total_sales_between" THEN "soldBefore"
                   ELSE UpperKeyOf(op)
         IN /\ o[lo] = convert_date_to_api_format(args.start_date, timezone)
            /\ o[hi] = convert_date_to_api_format(args.end_date, timezone)

\* a per-status call without a status list fetches the statuses of the signature
DefaultStatusesAsDeclared ==
  /\ (op = "get_jobs_completed_between" /\ ~args.job_status.given) =>
       \A i \in 1 .. Len(fetches) :
         /\ i <= Len(DefaultJobStatus)
         /\ fetches[i].options["jobStatus"] = DefaultJobStatus[i]
  /\ (op = "get_appointments_between" /\ ~args.appointment_status.given) =>
       \A i \in 1 .. Len(fetches) :
         /\ i <= Len(DefaultAppointmentStatus)
         /\ fetches[i].options["status"] = DefaultAppointmentStatus[i]

AsBound ==
  pc = "returned" =>
    RequestsUseBoundConn /\ DatesUseBoundTimezone /\ DefaultStatusesAsDeclared

\* C12: no operation, returning or raising, changes the bound connection, the
\* bound timezone or the default status lists, and every call, whatever ran before
\* it, issues all its requests with the bound connection, converts its dates
\* through the bound timezone and, without a status list, fetches the declared
\* default statuses.
C12_BoundConfigurationFixed ==
  [][/\ conn' = conn
     /\ timezone' = timezone
     /\ job_status_default' = job_status_default
     /\ appointment_status_default' = appointment_status_default
     /\ AsBound']_vars

\* a call that is not the first one since construction, under the Sydney timezone
C12_Witness ==
  /\ AfterCall("get_api_data_between")
  /\ earlier # <<>>
  /\ timezone = "Australia/Sydney"
  /\ fetches[1].ep.conn = conn
  /\ args.start_date # args.end_date
  /\ SentOptions[DateField \o "OnOrAfter"]
       = convert_date_to_api_format(args.start_date, "Australia/Sydney")
  /\ SentOptions[DateField \o "OnOrAfter"]
       # convert_date_to_api_format(args.start_date, "UTC")
====
